---- MODULE Spec2Model ----
(***************************************************************************)
(* Model of ansimple's playbook engine: Playbook::process                  *)
(* (src/src/playbook/mod.rs) with the per-host workers it spawns, and the  *)
(* result of TaskKind::execute_on_host (src/src/task/mod.rs) as the worker *)
(* loop consumes it.                                                       *)
(*                                                                         *)
(* process is an async recursion run by the task that main blocks on; the  *)
(* workers are tokio tasks of their own.  A panic in a worker is caught by *)
(* the runtime and surfaces at the JoinHandle; a panic in process unwinds  *)
(* the whole recursion and main, and the runtime is shut down.             *)
(***************************************************************************)
EXTENDS Integers, Sequences, FiniteSets, TLC

\* ---------------------------------------------------------------- bounds
NumHosts == 2     \* hosts in the inventory
MaxTasks == 3     \* tasks in a playbook
MaxDepth == 4     \* nesting depth at which the model stops following includes

\* ---------------------------------------------------------------- Option<T>
None == {}
Some(x) == {x}
IsSome(o) == o # {}
Unwrap(o) == CHOOSE x \in o : TRUE

\* Vec::contains
Contains(vec, x) == \E i \in 1..Len(vec) : vec[i] = x

\* ---------------------------------------------------------------- inventory
Host(a) == [address |-> a, user |-> None, key |-> None]

\* host_config.hosts; address 0 is an address no inventory host has
HostConfig == [hosts |-> [i \in 1..NumHosts |-> Host(i)]]

AllAddresses == [i \in 1..NumHosts |-> i]

\* ---------------------------------------------------------------- tasks
Task(kind, tags, register, when) ==
    [kind |-> kind, tags |-> tags, register |-> register, when |-> when]

TaskPool ==
    << Task("shell",          None,                   Some("r"), None),
       Task("search_replace", Some(<<"t1", "t2">>),   Some("r"), Some("r == 'changed'")),
       Task("template",       Some(<<"t2">>),         None,      None),
       Task("copy",           Some(<<>>),             Some("s"), None),
       Task("search_replace", Some(<<"t1">>),         Some("s"), None),
       Task("shell",          Some(<<"t2", "t1">>),   None,      Some("s == 'unchanged'")) >>

TasksFrom(offset) ==
    [i \in 1..MaxTasks |-> TaskPool[((offset + i - 1) % Len(TaskPool)) + 1]]

\* ---------------------------------------------------------------- playbooks
Include(file, tags, when) == [file |-> file, tags |-> tags, when |-> when]

Playbook(include, hosts, tasks) ==
    [include |-> include, hosts |-> hosts, tasks |-> tasks]

Files == {"site", "web", "db"}

IncFlat ==
    [f \in Files |-> None]
IncTwo ==
    [f \in Files |->
        IF f = "site"
        THEN Some(<< Include("web", Some(<<"t2">>), Some("false")),
                     Include("db", None, None) >>)
        ELSE IF f = "web" THEN Some(<<>>) ELSE None]
IncNest ==
    [f \in Files |->
        IF f = "site" THEN Some(<< Include("web", None, None) >>)
        ELSE IF f = "web" THEN Some(<< Include("db", Some(<<>>), None) >>)
        ELSE None]
IncMissing ==
    [f \in Files |->
        IF f = "site"
        THEN Some(<< Include("db", None, None), Include("missing", None, None) >>)
        ELSE None]
IncCycle ==
    [f \in Files |->
        IF f = "site"
        THEN Some(<< Include("web", None, None) >>)
        ELSE IF f = "web" THEN Some(<< Include("site", Some(<<"t1">>), None) >>)
        ELSE None]

IncludeShapes == {IncFlat, IncTwo, IncNest, IncMissing, IncCycle}

HostsWide ==
    [f \in Files |->
        IF f = "site" THEN <<1, NumHosts>>
        ELSE IF f = "web" THEN <<1>> ELSE <<NumHosts, 0>>]
HostsNarrow ==
    [f \in Files |->
        IF f = "site" THEN <<1>>
        ELSE IF f = "web" THEN <<NumHosts, 1>> ELSE <<>>]
HostsLast ==
    [f \in Files |->
        IF f = "site" THEN <<0, NumHosts>>
        ELSE IF f = "web" THEN <<NumHosts, NumHosts>> ELSE AllAddresses]

HostLists == {HostsWide, HostsNarrow, HostsLast}

TaskOffset(f) == IF f = "site" THEN 0 ELSE IF f = "web" THEN 3 ELSE 1

Repos ==
    { [f \in Files |-> Playbook(inc[f], hs[f], TasksFrom(TaskOffset(f)))] :
        inc \in IncludeShapes, hs \in HostLists }

TagFilters == { None, Some(<<"t1">>), Some(<<"t2", "t3">>) }

\* ---------------------------------------------------------------- state
VARIABLES
    playbooks,       \* the playbook files on disk: file -> Playbook
    specified_tags,  \* cli.tags
    levels,          \* the calls of Playbook::process, in call order
    cur,             \* the call of process that is executing, 0 when none
    workers,         \* the tasks spawned by task::spawn, in spawn order
    status,          \* of the run: "running", "returned", "panicked"
    ex,              \* one worker's calls of execute_on_host, step by step
    remote           \* the files of the host that worker talks to

procVars == <<playbooks, specified_tags, levels, cur, workers, status>>
execVars == <<ex, remote>>
vars == <<playbooks, specified_tags, levels, cur, workers, status, ex, remote>>

EmptyCtx == [k \in {} |-> "changed"]

\* a call of process: self, the caller, and the specified_tags argument
Level(pb, parent, tags) ==
    [pb |-> pb, parent |-> parent, specified_tags |-> tags,
     phase |-> "include", inc |-> 1, handles |-> <<>>, j |-> 1]

Worker(lvl, host) ==
    [lvl |-> lvl, host |-> host, pc |-> "spawned", idx |-> 1,
     ctx |-> EmptyCtx, results |-> <<>>, log |-> <<>>, fx |-> <<>>]

PlaybookOf(l) == playbooks[levels[l].pb]
Includes(pb) == IF IsSome(pb.include) THEN Unwrap(pb.include) ELSE <<>>
TasksOf(w) == PlaybookOf(workers[w].lvl).tasks

RECURSIVE Depth(_)
Depth(l) == IF levels[l].parent = 0 THEN 1 ELSE 1 + Depth(levels[l].parent)

Init ==
    /\ playbooks \in Repos
    /\ specified_tags \in TagFilters
    /\ levels = << Level("site", 0, specified_tags) >>
    /\ cur = 1
    /\ workers = <<>>
    /\ status = "running"
    /\ ex = <<>>
    /\ remote = <<>>


\* ---------------------------------------------------------------- task results
TaskResults == {"Changed", "Unchanged", "_Failed"}

\* register_value with two arms exchanged
register_valueSwapped(result) ==
    CASE result = "Changed"   -> "unchanged"
      [] result = "Unchanged" -> "changed"
      [] result = "_Failed"   -> "failed"

\* TaskResult::register_value
register_value(result) ==
    CASE result = "Changed"   -> "changed"
      [] result = "Unchanged" -> "unchanged"
      [] result = "_Failed"   -> "failed"

\* Display for TaskResult: the word after "<kind>: <host> - "
ResultLine(result) ==
    CASE result = "Changed"   -> "CHANGED"
      [] result = "Unchanged" -> "UNCHANGED"
      [] result = "_Failed"   -> "FAILED"

\* Task::when: the stub that ignores the context
When(task, ctx) == TRUE

\* the tag gate with any in place of all
TagSkipAny(spec_tags, task) ==
    IF IsSome(spec_tags)
    THEN IF IsSome(task.tags)
         THEN \E i \in 1..Len(Unwrap(task.tags)) :
                  ~Contains(Unwrap(spec_tags), Unwrap(task.tags)[i])
         ELSE TRUE
    ELSE FALSE

\* the tag gate of the worker loop: TRUE when the task is skipped
TagSkip(spec_tags, task) ==
    IF IsSome(spec_tags)
    THEN IF IsSome(task.tags)
         THEN \A i \in 1..Len(Unwrap(task.tags)) :
                  ~Contains(Unwrap(spec_tags), Unwrap(task.tags)[i])
         ELSE TRUE
    ELSE FALSE

\* TaskKind::execute_on_host: what the call can return for a task kind, the
\* remote host deciding which: "Err" is any of the ? and unwrap exits
ExecuteOnHost(kind) ==
    CASE kind = "shell"          -> {"Changed", "Err"}
      [] kind = "copy"           -> {"Changed", "Err"}
      [] kind = "template"       -> {"Changed", "Err"}
      [] kind = "search_replace" -> {"Unchanged", "Changed", "Err"}

\* an insert that keeps the value a key already has
InsertKeepFirst(ctx, key, val) ==
    [k \in DOMAIN ctx \cup {key} |-> IF k \in DOMAIN ctx THEN ctx[k] ELSE val]

\* tera Context::insert
Insert(ctx, key, val) ==
    [k \in DOMAIN ctx \cup {key} |-> IF k = key THEN val ELSE ctx[k]]

\* ---------------------------------------------------------------- panics
\* A panic in process: the recursion unwinds through every enclosing call and
\* main, the runtime shuts down and drops the workers that never ran.
Unwound(lvls) ==
    [l \in DOMAIN lvls |->
        IF lvls[l].phase \in {"include", "join"}
        THEN [lvls[l] EXCEPT !.phase = "aborted"] ELSE lvls[l]]

Dropped(ws) ==
    [w \in DOMAIN ws |->
        IF ws[w].pc = "spawned" THEN [ws[w] EXCEPT !.pc = "cancelled"] ELSE ws[w]]

Panic ==
    /\ status' = "panicked"
    /\ cur' = 0
    /\ levels' = Unwound(levels)
    /\ workers' = Dropped(workers)

\* ---------------------------------------------------------------- process
\* a filter narrowed to the tags of the include entry
IncludedTagsOwn(include, tags) == include.tags

\* specified_tags.clone(): the filter handed to the included playbook
IncludedTags(include, tags) == tags

\* one turn of the include loop: load the file and call process on it
ProcessInclude ==
    /\ status = "running" /\ cur # 0
    /\ levels[cur].phase = "include"
    /\ levels[cur].inc <= Len(Includes(PlaybookOf(cur)))
    /\ Depth(cur) < MaxDepth
    /\ LET include == Includes(PlaybookOf(cur))[levels[cur].inc] IN
       IF include.file \in DOMAIN playbooks
       THEN /\ levels' = Append(levels,
                    Level(include.file, cur,
                          IncludedTags(include, levels[cur].specified_tags)))
            /\ cur' = Len(levels) + 1
            /\ UNCHANGED <<workers, status>>
       ELSE Panic
    /\ UNCHANGED <<playbooks, specified_tags>>
    /\ UNCHANGED execVars

\* matching_hosts without the filter
MatchingHostsUnfiltered(pb) == HostConfig.hosts

\* matching_hosts
MatchingHosts(pb) ==
    SelectSeq(HostConfig.hosts, LAMBDA host : Contains(pb.hosts, host.address))

\* matching hosts narrowed to those the including playbook matches too
SpawnHostsWithinCaller(l) ==
    SelectSeq(MatchingHosts(PlaybookOf(l)),
              LAMBDA host : \/ levels[l].parent = 0
                            \/ Contains(PlaybookOf(levels[l].parent).hosts, host.address))

\* the hosts call l of process spawns workers for: those its own playbook
\* matches in the inventory handed down
SpawnHosts(l) == MatchingHosts(PlaybookOf(l))

\* an include loop that leaves out a file that is already being processed
IncludesDoneOnRevisit(l) ==
    IF levels[l].inc > Len(Includes(PlaybookOf(l)))
    THEN TRUE
    ELSE \E a \in DOMAIN levels :
            /\ levels[a].phase = "include"
            /\ levels[a].pb = Includes(PlaybookOf(l))[levels[l].inc].file

\* the include loop left before its last turn
IncludesDoneEarly(l) == TRUE

\* the include loop of call l has gone through every entry
IncludesDone(l) == levels[l].inc > Len(Includes(PlaybookOf(l)))

\* the includes are through: match the hosts and spawn a worker for each
ProcessSpawn ==
    /\ status = "running" /\ cur # 0
    /\ levels[cur].phase = "include"
    /\ IncludesDone(cur)
    /\ LET matching_hosts == SpawnHosts(cur)
           n == Len(workers) IN
       /\ workers' = workers \o
              [i \in 1..Len(matching_hosts) |-> Worker(cur, matching_hosts[i].address)]
       /\ levels' = [levels EXCEPT ![cur].phase = "join",
                                   ![cur].handles =
                                       [i \in 1..Len(matching_hosts) |-> n + i]]
    /\ UNCHANGED <<playbooks, specified_tags, cur, status>>
    /\ UNCHANGED execVars

\* a handle that resolves before its task has ended
HandleReadyAtOnce(w) == workers[w].pc # "spawned"

\* handle.await: the JoinHandle of worker w resolves when the task has ended
HandleReady(w) == workers[w].pc \in {"done", "failed"}

\* a join that drops the task's panic
JoinResultDropped(w) == "Ok"

\* what the JoinHandle resolves to: Err(JoinError) when the task panicked
JoinResult(w) == IF workers[w].pc = "failed" THEN "Err" ELSE "Ok"

\* handle.await.unwrap() on the next handle
ProcessJoin ==
    /\ status = "running" /\ cur # 0
    /\ levels[cur].phase = "join"
    /\ levels[cur].j <= Len(levels[cur].handles)
    /\ LET w == levels[cur].handles[levels[cur].j] IN
       /\ HandleReady(w)
       /\ IF JoinResult(w) = "Ok"
          THEN /\ levels' = [levels EXCEPT ![cur].j = @ + 1]
               /\ UNCHANGED <<cur, workers, status>>
          ELSE Panic
    /\ UNCHANGED <<playbooks, specified_tags>>
    /\ UNCHANGED execVars

\* every handle is joined: process returns to the include loop of its caller
ProcessReturn ==
    /\ status = "running" /\ cur # 0
    /\ levels[cur].phase = "join"
    /\ levels[cur].j > Len(levels[cur].handles)
    /\ LET parent == levels[cur].parent IN
       /\ levels' = [l \in DOMAIN levels |->
              IF l = cur THEN [levels[l] EXCEPT !.phase = "returned"]
              ELSE IF l = parent THEN [levels[l] EXCEPT !.inc = @ + 1]
              ELSE levels[l]]
       /\ cur' = parent
       /\ status' = IF parent = 0 THEN "returned" ELSE status
    /\ UNCHANGED <<playbooks, specified_tags, workers>>
    /\ UNCHANGED execVars

\* ---------------------------------------------------------------- workers
Advance(w, n) == IF n > Len(TasksOf(w)) THEN "done" ELSE "gate"

\* the runtime polls the spawned task for the first time
WorkerStart(w) ==
    /\ status = "running"
    /\ workers[w].pc = "spawned"
    /\ workers' = [workers EXCEPT ![w].pc = Advance(w, 1)]
    /\ UNCHANGED <<playbooks, specified_tags, levels, cur, status>>
    /\ UNCHANGED execVars

\* a loop that takes its next turn while a task is still executing
AtLoopHeadNoAwait(w) == workers[w].pc \in {"gate", "exec"}

\* the worker is at the head of the for loop over playbook.tasks
AtLoopHead(w) == workers[w].pc = "gate"

\* a call of execute_on_host that prints no START line
StartedSilently(ws, w, i) == [ws EXCEPT ![w].pc = "exec"]

\* execute_on_host is called for task i: println!("{self}: {host} - START")
Started(ws, w, i) ==
    [ws EXCEPT ![w].pc = "exec", ![w].log = Append(@, <<"START", i>>)]

\* the head of the loop body: when, the tag gate, and the START line
WorkerGate(w) ==
    /\ AtLoopHead(w)
    /\ LET i == workers[w].idx
           task == TasksOf(w)[i] IN
       IF \/ ~When(task, workers[w].ctx)
          \/ TagSkip(levels[workers[w].lvl].specified_tags, task)
       THEN workers' = [workers EXCEPT ![w].idx = i + 1,
                                       ![w].pc = Advance(w, i + 1),
                                       ![w].results = Append(@, "skipped")]
       ELSE workers' = Started(workers, w, i)
    /\ UNCHANGED <<playbooks, specified_tags, levels, cur, status>>
    /\ UNCHANGED execVars

\* a panic that takes the other workers of the call down with it
ExpectFailedCancelling(ws, w) ==
    [v \in DOMAIN ws |->
        IF v = w THEN [ws[v] EXCEPT !.pc = "failed", !.results = Append(@, "Err")]
        ELSE IF ws[v].lvl = ws[w].lvl /\ ws[v].pc \in {"spawned", "gate", "exec"}
             THEN [ws[v] EXCEPT !.pc = "cancelled"]
             ELSE ws[v]]

\* expect("failed to execute task") on Err: the worker's task panics
ExpectFailed(ws, w) ==
    [ws EXCEPT ![w].pc = "failed", ![w].results = Append(@, "Err")]

\* a context shared by the workers of one call of process
RegisterShared(ws, w, key, val) ==
    [v \in DOMAIN ws |->
        IF ws[v].lvl = ws[w].lvl THEN [ws[v] EXCEPT !.ctx = Insert(@, key, val)]
        ELSE ws[v]]

\* context.insert(register_key, result.register_value()) on the worker's clone
Register(ws, w, key, val) == [ws EXCEPT ![w].ctx = Insert(@, key, val)]

\* whether the remote side effect of the task has happened when
\* execute_on_host comes back: always on Ok, not always on Err
SideEffect(result) == IF result = "Err" THEN {TRUE, FALSE} ELSE {TRUE}

\* execute_on_host comes back: expect, the result line, and the register
WorkerExec(w) ==
    /\ workers[w].pc = "exec"
    /\ LET i == workers[w].idx
           task == TasksOf(w)[i] IN
       \E result \in ExecuteOnHost(task.kind) :
       \E effect \in SideEffect(result) :
          IF result = "Err"
          THEN workers' = ExpectFailed(
                   IF effect
                   THEN [workers EXCEPT
                            ![w].fx = Append(@, <<i, Len(workers[w].log)>>)]
                   ELSE workers, w)
          ELSE LET returned == [workers EXCEPT
                       ![w].fx = Append(@, <<i, Len(workers[w].log)>>),
                       ![w].results = Append(@, result),
                       ![w].log = Append(@, <<ResultLine(result), i>>),
                       ![w].idx = i + 1,
                       ![w].pc = Advance(w, i + 1)]
               IN workers' = IF IsSome(task.register)
                             THEN Register(returned, w, Unwrap(task.register),
                                           register_value(result))
                             ELSE returned
    /\ UNCHANGED <<playbooks, specified_tags, levels, cur, status>>
    /\ UNCHANGED execVars

Next ==
    \/ ProcessInclude
    \/ ProcessSpawn
    \/ ProcessJoin
    \/ ProcessReturn
    \/ \E w \in DOMAIN workers : WorkerStart(w)
    \/ \E w \in DOMAIN workers : WorkerGate(w)
    \/ \E w \in DOMAIN workers : WorkerExec(w)

Spec == Init /\ [][Next]_vars


\* ================================================================ execute_on_host
\* One worker's loop over its tasks with execute_on_host taken step by step:
\* the session it opens, the authentication, and the body of each task kind
\* against the files of the remote host.
MaxLen == 2       \* characters in the remote file at the start
MaxCalls == 2     \* tasks in the worker's list

Chars == {"a", "b"}

RECURSIVE Strings(_)
\* the texts over Chars of at most n characters
Strings(n) ==
    IF n = 0 THEN {<<>>}
    ELSE Strings(n - 1) \cup
         {Append(t, c) : t \in {u \in Strings(n - 1) : Len(u) = n - 1}, c \in Chars}

\* ---------------------------------------------------------------- regex
\* search patterns: characters, "." for any character, and "(" which opens a
\* group that nothing closes
IsValidRegex(search) == \A i \in 1..Len(search) : search[i] # "("

\* the pattern matches text at position p
MatchAt(search, text, p) ==
    /\ p + Len(search) - 1 <= Len(text)
    /\ \A i \in 1..Len(search) : search[i] = "." \/ search[i] = text[p + i - 1]

RECURSIVE ReplaceFrom(_, _, _, _)
\* Regex::replace_all from position p on: leftmost matches, none overlapping;
\* the empty pattern matches before every character and at the end
ReplaceFrom(search, text, replace, p) ==
    IF p > Len(text)
    THEN IF search = <<>> THEN replace ELSE <<>>
    ELSE IF search = <<>>
         THEN replace \o <<text[p]>> \o ReplaceFrom(search, text, replace, p + 1)
         ELSE IF MatchAt(search, text, p)
              THEN replace \o ReplaceFrom(search, text, replace, p + Len(search))
              ELSE <<text[p]>> \o ReplaceFrom(search, text, replace, p + 1)

ReplaceAll(search, text, replace) == ReplaceFrom(search, text, replace, 1)

HasMatch(search, text) ==
    \E p \in 1..(Len(text) + 1) : MatchAt(search, text, p)

\* ---------------------------------------------------------------- templates
\* a template is a list of {{ name }} expressions; rendering fails on a name
\* the context does not define
render_template(template, context) ==
    IF \A i \in 1..Len(template) : template[i] \in DOMAIN context
    THEN [ret |-> "Ok", text |-> [i \in 1..Len(template) |-> context[template[i]]]]
    ELSE [ret |-> "Err", text |-> <<>>]

\* ---------------------------------------------------------------- the tasks
Shell(command, register) ==
    Task("shell", None, register, None) @@ [command |-> command]
Copy(src, dest, remote_src, register) ==
    Task("copy", None, register, None)
        @@ [src |-> src, dest |-> dest, remote_src |-> remote_src]
Template(src, dest, variables, register) ==
    Task("template", None, register, None)
        @@ [src |-> src, dest |-> dest, variables |-> variables]
SearchReplace(path, search, replace, register) ==
    Task("search_replace", None, register, None)
        @@ [path |-> path, search |-> search, replace |-> replace]

SearchPatterns == {<<"a">>, <<"a", "b">>, <<".">>, <<>>, <<"(">>, <<"a", "(">>}
Replacements == {<<>>, <<"b">>, <<"a", "a">>}

SearchReplaceTasks ==
    {SearchReplace("/f", search, replace, Some("r")) :
        search \in SearchPatterns, replace \in Replacements}

\* the local template files: the names each one renders
LocalTemplates == [t1 |-> <<"v", "r">>, t2 |-> <<"v">>]

OtherTasks ==
    << Template("t1", "/g", [v |-> "1", r |-> "x"], Some("s")),
       Shell("true", Some("r")),
       Template("t2", "/g", [v |-> "2"], None),
       Copy("/f", "/g", Some(TRUE), None),
       Template("t1", "/f", [v |-> "3"], Some("v")),
       Copy("local", "/f", None, Some("s")) >>

\* the task lists of the worker: one task run again and again, or a mix
TaskLists ==
    {[i \in 1..MaxCalls |-> t] : t \in SearchReplaceTasks}
        \cup {[i \in 1..MaxCalls |-> OtherTasks[((k + i - 1) % Len(OtherTasks)) + 1]] :
                k \in 0..(Len(OtherTasks) - 1)}

\* the remote host at the start: /f with some text, or no file at all
RemoteFiles ==
    {[path \in {"/f"} |-> text] : text \in Strings(MaxLen)} \cup {<<>>}

NoSession == [connected |-> FALSE, authenticated |-> FALSE, tried |-> <<>>]

ExecInit ==
    /\ playbooks \in {[f \in Files |-> Playbook(None, <<>>, <<>>)]}
    /\ specified_tags = None
    /\ levels = <<>>
    /\ cur = 0
    /\ workers = <<>>
    /\ status = "running"
    /\ remote \in RemoteFiles
    /\ \E tasks \in TaskLists :
          ex = [pc |-> "idle", tasks |-> tasks, idx |-> 1, context |-> EmptyCtx,
                session |-> NoSession, sessions |-> 0,
                contents |-> <<>>, new_contents |-> <<>>, before |-> remote,
                local |-> EmptyCtx,
                stdout |-> <<>>, calls |-> <<>>]

ExecTask == ex.tasks[ex.idx]


\* sftp.create followed by write_all: the file holds the text
Put(files, path, text) ==
    [f \in DOMAIN files \cup {path} |-> IF f = path THEN text ELSE files[f]]

\* an error exit that reports a failed task in place of the error
ErrResultAsFailed(why) == "_Failed"

\* the ? operator: execute_on_host returns Err(e)
ErrResult(why) == "Err"

\* a worker context that keeps what the task put into its copy
KeptContextLocal(context, local) == local

\* the context of the worker after the call: execute_on_host holds it by
\* shared reference and works on a clone
KeptContext(context, local) == context

\* execute_on_host is left with ret ("Changed", "Unchanged", "_Failed", "Err"
\* or "Panic"), the files of the host being files: the result line, expect,
\* and the register of the worker loop
Return(e, ret, why, files) ==
    LET task == e.tasks[e.idx]
        rec == [idx |-> e.idx, ret |-> ret, why |-> why, session |-> e.session,
                before |-> e.before, after |-> files, local |-> e.local]
        kept == KeptContext(e.context, e.local)
    IN IF ret \in {"Err", "Panic"}
       THEN [e EXCEPT !.pc = "failed", !.calls = Append(@, rec),
                      !.session = NoSession]
       ELSE [e EXCEPT
                !.pc = IF e.idx + 1 > Len(e.tasks) THEN "done" ELSE "idle",
                !.idx = @ + 1,
                !.stdout = Append(@, <<ResultLine(ret), e.idx>>),
                !.calls = Append(@, rec),
                !.context = IF IsSome(task.register)
                            THEN Insert(kept, Unwrap(task.register), register_value(ret))
                            ELSE kept,
                !.session = NoSession,
                !.local = EmptyCtx]

\* the worker calls execute_on_host for its next task: the START line
ExecStart ==
    /\ ex.pc = "idle"
    /\ ex' = [ex EXCEPT !.pc = "connect", !.before = remote,
                        !.stdout = Append(@, <<"START", ex.idx>>)]
    /\ UNCHANGED <<procVars, remote>>

\* a session kept from the call before and used again
SessionsOpenedOnce(n) == IF n = 0 THEN n + 1 ELSE n

\* the connections the worker has opened, after TcpStream::connect of this call
SessionsOpened(n) == n + 1

\* TcpStream::connect(..).unwrap(), Session::new, handshake().unwrap()
ExecConnect ==
    /\ ex.pc = "connect"
    /\ \E tcp \in {"ok", "refused", "handshake"} :
          ex' = IF tcp = "refused"
                THEN Return(ex, "Panic", "connect", remote)
                ELSE LET opened == [ex EXCEPT !.sessions = SessionsOpened(@),
                                              !.session.connected = TRUE]
                     IN IF tcp = "handshake"
                        THEN Return(opened, "Panic", "handshake", remote)
                        ELSE [opened EXCEPT !.pc = "agent"]
    /\ UNCHANGED <<procVars, remote>>

\* session.userauth_agent(user)? - the agent may fail, or come back without
\* the session being authenticated
ExecAuthAgent ==
    /\ ex.pc = "agent"
    /\ LET tried == [ex EXCEPT !.session.tried = Append(@, "agent")] IN
       \E agent \in {"ok", "unauthenticated", "err"} :
          ex' = IF agent = "err"
                THEN Return(tried, ErrResult("auth"), "auth", remote)
                ELSE IF agent = "ok"
                     THEN [tried EXCEPT !.session.authenticated = TRUE, !.pc = "body"]
                     ELSE [tried EXCEPT !.pc = "pubkey"]
    /\ UNCHANGED <<procVars, remote>>

\* if !session.authenticated() { session.userauth_pubkey_file(..)? }
ExecAuthPubkey ==
    /\ ex.pc = "pubkey"
    /\ LET tried == [ex EXCEPT !.session.tried = Append(@, "pubkey")] IN
       \E pubkey \in {"ok", "err"} :
          ex' = IF pubkey = "err"
                THEN Return(tried, ErrResult("auth"), "auth", remote)
                ELSE [tried EXCEPT !.session.authenticated = TRUE, !.pc = "body"]
    /\ UNCHANGED <<procVars, remote>>

\* Self::Shell: channel_session, exec, read_to_string
ExecShell ==
    /\ ex.pc = "body" /\ ExecTask.kind = "shell"
    /\ \E channel \in {"ok", "err"} :
          ex' = IF channel = "err"
                THEN Return(ex, ErrResult("channel"), "channel", remote)
                ELSE Return(ex, "Changed", "", remote)
    /\ UNCHANGED <<procVars, remote>>

\* the text of the local file Copy reads
LocalFile == <<"b">>

\* Self::Copy: read the source, remote or local, create the destination, write
ExecCopy ==
    /\ ex.pc = "body" /\ ExecTask.kind = "copy"
    /\ LET task == ExecTask
           remote_src == task.remote_src = Some(TRUE)
       IN \E sftp \in {"ok", "open_err", "create_err", "write_err"} :
          IF sftp = "open_err" \/ (remote_src /\ task.src \notin DOMAIN remote)
          THEN /\ remote' = remote
               /\ ex' = Return(ex, ErrResult("io"), "io", remote')
          ELSE LET contents == IF remote_src THEN remote[task.src] ELSE LocalFile IN
               IF sftp = "create_err"
               THEN /\ remote' = remote
                    /\ ex' = Return(ex, ErrResult("io"), "io", remote')
               ELSE IF sftp = "write_err"
                    THEN /\ remote' = Put(remote, task.dest, <<>>)
                         /\ ex' = Return(ex, ErrResult("io"), "io", remote')
                    ELSE /\ remote' = Put(remote, task.dest, contents)
                         /\ ex' = Return(ex, "Changed", "", remote')
    /\ UNCHANGED procVars

\* Self::Template: read the template, merge the variables into a clone of the
\* context, render, create the destination, write
ExecTemplate ==
    /\ ex.pc = "body" /\ ExecTask.kind = "template"
    /\ LET task == ExecTask
           local == [k \in DOMAIN ex.context \cup DOMAIN task.variables |->
                        IF k \in DOMAIN task.variables
                        THEN task.variables[k] ELSE ex.context[k]]
           merged == [ex EXCEPT !.local = local]
           rendered == render_template(LocalTemplates[task.src], local)
       IN \E io \in {"ok", "read_err", "create_err", "write_err"} :
          IF io = "read_err"
          THEN /\ remote' = remote
               /\ ex' = Return(ex, ErrResult("io"), "io", remote')
          ELSE IF rendered.ret = "Err"
               THEN /\ remote' = remote
                    /\ ex' = Return(merged, ErrResult("render"), "render", remote')
               ELSE IF io = "create_err"
                    THEN /\ remote' = remote
                         /\ ex' = Return(merged, ErrResult("io"), "io", remote')
                    ELSE IF io = "write_err"
                         THEN /\ remote' = Put(remote, task.dest, <<>>)
                              /\ ex' = Return(merged, ErrResult("io"), "io", remote')
                         ELSE /\ remote' = Put(remote, task.dest, rendered.text)
                              /\ ex' = Return(merged, "Changed", "", remote')
    /\ UNCHANGED procVars


\* Self::SearchReplace, first part: sftp, open the path, read_to_string
ExecSearchReplaceRead ==
    /\ ex.pc = "body" /\ ExecTask.kind = "search_replace"
    /\ \E sftp \in {"ok", "open_err"} :
          ex' = IF sftp = "open_err" \/ ExecTask.path \notin DOMAIN remote
                THEN Return(ex, ErrResult("io"), "io", remote)
                ELSE [ex EXCEPT !.pc = "compile", !.contents = remote[ExecTask.path]]
    /\ UNCHANGED <<procVars, remote>>

\* a file already created, and so emptied, when the pattern is compiled
FilesAtCompileCreated(files, path) == Put(files, path, <<>>)

\* the files of the host when Regex::new runs: sftp.create comes after it
FilesAtCompile(files, path) == files

\* Self::SearchReplace, second part: Regex::new(search)?, replace_all
ExecSearchReplaceCompile ==
    /\ ex.pc = "compile"
    /\ remote' = FilesAtCompile(remote, ExecTask.path)
    /\ ex' = IF IsValidRegex(ExecTask.search)
             THEN [ex EXCEPT !.pc = "write",
                             !.new_contents =
                                 ReplaceAll(ExecTask.search, ex.contents, ExecTask.replace)]
             ELSE Return(ex, ErrResult("pattern"), "pattern", remote')
    /\ UNCHANGED procVars

\* a comparison that always reports a change
SearchReplaceResultChanged(contents, new_contents) == "Changed"

\* if contents == new_contents { Unchanged } else { Changed }
SearchReplaceResult(contents, new_contents) ==
    IF contents = new_contents THEN "Unchanged" ELSE "Changed"

\* Self::SearchReplace, third part: sftp.create(path)?, write_all, compare
ExecSearchReplaceWrite ==
    /\ ex.pc = "write"
    /\ \E sftp \in {"ok", "create_err", "write_err"} :
          IF sftp = "create_err"
          THEN /\ remote' = remote
               /\ ex' = Return(ex, ErrResult("io"), "io", remote')
          ELSE IF sftp = "write_err"
               THEN /\ remote' = Put(remote, ExecTask.path, <<>>)
                    /\ ex' = Return(ex, ErrResult("io"), "io", remote')
               ELSE /\ remote' = Put(remote, ExecTask.path, ex.new_contents)
                    /\ ex' = Return(ex, SearchReplaceResult(ex.contents, ex.new_contents),
                                   "", remote')
    /\ UNCHANGED procVars

ExecNext ==
    \/ ExecStart
    \/ ExecConnect
    \/ ExecAuthAgent
    \/ ExecAuthPubkey
    \/ ExecShell
    \/ ExecCopy
    \/ ExecTemplate
    \/ ExecSearchReplaceRead
    \/ ExecSearchReplaceCompile
    \/ ExecSearchReplaceWrite

ExecSpec == ExecInit /\ [][ExecNext]_vars

\* ================================================================ properties
WorkersOf(l) == {w \in DOMAIN workers : workers[w].lvl = l}
InventoryAddresses == {HostConfig.hosts[i].address : i \in 1..Len(HostConfig.hosts)}
Elems(vec) == {vec[i] : i \in 1..Len(vec)}
Ran(r) == r \in {"Changed", "Unchanged", "_Failed"}

\* the tag a result registers, as the data model words it
TagOf(r) ==
    IF r = "Changed" THEN "changed"
    ELSE IF r = "Unchanged" THEN "unchanged" ELSE "failed"

\* C1: a host of the inventory whose address is not in the hosts list of the
\* playbook a call of process handles has no task of that call started on it.
C1_UnmatchedHostNeverRuns ==
    \A l \in DOMAIN levels : \A h \in InventoryAddresses :
        h \notin Elems(PlaybookOf(l).hosts) =>
            \A w \in WorkersOf(l) : workers[w].host = h => workers[w].log = <<>>

\* a call of process has returned, one inventory host was outside its hosts
\* list and a task of it ran on another host
C1_Witness ==
    \E l \in DOMAIN levels :
        /\ levels[l].phase = "returned"
        /\ \E h \in InventoryAddresses : h \notin Elems(PlaybookOf(l).hosts)
        /\ \E w \in WorkersOf(l) : workers[w].log # <<>>

\* C2: with no requested tags no task is skipped; with requested tags a task
\* is skipped exactly when its tags are absent or none of them is requested.
C2_TagGate ==
    \A w \in DOMAIN workers :
        LET passed(i) ==
                \/ i <= Len(workers[w].results) /\ workers[w].results[i] # "skipped"
                \/ i = workers[w].idx /\ workers[w].pc = "exec"
            skipped(i) ==
                i <= Len(workers[w].results) /\ workers[w].results[i] = "skipped"
        IN \A i \in 1..Len(TasksOf(w)) :
              LET t == TasksOf(w)[i]
                  unrequested ==
                      \/ t.tags = None
                      \/ Elems(Unwrap(t.tags)) \cap Elems(Unwrap(specified_tags)) = {}
              IN /\ specified_tags = None => ~skipped(i)
                 /\ specified_tags # None /\ passed(i) => ~unrequested
                 /\ specified_tags # None /\ skipped(i) => unrequested

\* under a requested filter one worker skipped a task without tags or with an
\* empty tag list, skipped one with unrequested tags only, and ran a third
C2_Witness ==
    /\ specified_tags # None
    /\ \E w \in DOMAIN workers : \E i, j, k \in 1..Len(workers[w].results) :
          /\ workers[w].results[i] = "skipped"
          /\ TasksOf(w)[i].tags \in {None, Some(<<>>)}
          /\ workers[w].results[j] = "skipped"
          /\ TasksOf(w)[j].tags \notin {None, Some(<<>>)}
          /\ Ran(workers[w].results[k])

\* C3: right after a task with a register key has executed, and before the
\* next task is gated, the worker's context maps the key to the result's tag.
C3_RegisterAfterExecute ==
    \A w \in DOMAIN workers :
        LET n == Len(workers[w].results) IN
        (n >= 1 /\ Ran(workers[w].results[n])) =>
            /\ workers[w].idx = n + 1
            /\ workers[w].pc \in {"gate", "exec", "done"}
            /\ IsSome(TasksOf(w)[n].register) =>
                  LET k == Unwrap(TasksOf(w)[n].register) IN
                  /\ k \in DOMAIN workers[w].ctx
                  /\ workers[w].results[n] = "Changed" => workers[w].ctx[k] = "changed"
                  /\ workers[w].results[n] = "Unchanged" => workers[w].ctx[k] = "unchanged"
                  /\ workers[w].results[n] = "_Failed" => workers[w].ctx[k] = "failed"

\* a worker stands before its next task with the tag "unchanged" registered
\* by the task that has just executed
C3_Witness ==
    \E w \in DOMAIN workers :
        LET n == Len(workers[w].results) IN
        /\ n >= 1 /\ workers[w].pc = "gate"
        /\ workers[w].results[n] = "Unchanged"
        /\ IsSome(TasksOf(w)[n].register)
        /\ workers[w].ctx[Unwrap(TasksOf(w)[n].register)] = "unchanged"

\* the tasks before task j of worker w that executed and registered under k
Registered(w, k, j) ==
    {i \in 1..(j - 1) : /\ i <= Len(workers[w].results)
                        /\ Ran(workers[w].results[i])
                        /\ TasksOf(w)[i].register = Some(k)}

\* the task worker w is gating or executing
Sees(w, j) == workers[w].pc \in {"gate", "exec"} /\ workers[w].idx = j

\* C4 as stated: every later task of the worker sees the key mapped to the
\* tag that the task registered.
C4_Original ==
    \A w \in DOMAIN workers : \A j \in 1..Len(TasksOf(w)) :
        Sees(w, j) =>
            \A k \in {"r", "s"} : \A i \in Registered(w, k, j) :
                /\ k \in DOMAIN workers[w].ctx
                /\ workers[w].ctx[k] = TagOf(workers[w].results[i])

\* C4 amended: every later task of the worker sees the key mapped to the tag
\* registered by the latest task before it that registered under that key.
C4_LatestRegistered ==
    \A w \in DOMAIN workers : \A j \in 1..Len(TasksOf(w)) :
        Sees(w, j) =>
            \A k \in {"r", "s"} :
                IF Registered(w, k, j) = {}
                THEN k \notin DOMAIN workers[w].ctx
                ELSE LET i == CHOOSE x \in Registered(w, k, j) :
                                  \A y \in Registered(w, k, j) : y <= x
                     IN /\ k \in DOMAIN workers[w].ctx
                        /\ workers[w].ctx[k] = TagOf(workers[w].results[i])

\* a task sees a key two earlier tasks registered under with different tags
C4_Witness ==
    \E w \in DOMAIN workers : \E j \in 1..Len(TasksOf(w)) :
        /\ Sees(w, j)
        /\ \E k \in {"r", "s"} : \E i1, i2 \in Registered(w, k, j) :
              /\ i1 < i2
              /\ workers[w].results[i1] # workers[w].results[i2]
              /\ workers[w].ctx[k] = TagOf(workers[w].results[i2])


RECURSIVE IsAncestor(_, _)
\* call a of process is an enclosing call of call l
IsAncestor(a, l) ==
    /\ levels[l].parent # 0
    /\ (levels[l].parent = a \/ IsAncestor(a, levels[l].parent))

Children(l) == {c \in DOMAIN levels : levels[c].parent = l}
Descendants(l) == {c \in DOMAIN levels : IsAncestor(l, c)}

\* C5: when a task of a playbook's own list has started on some host, every
\* include of the playbook has been run to completion: one call of process per
\* entry, in order, each returned with all its workers and its own includes
\* finished.
C5_IncludesBeforeOwnTasks ==
    \A w \in DOMAIN workers :
        workers[w].log # <<>> =>
            LET l == workers[w].lvl
                incs == Includes(PlaybookOf(l))
            IN /\ Cardinality(Children(l)) = Len(incs)
               /\ \A c \in Children(l) :
                     levels[c].pb = incs[Cardinality({e \in Children(l) : e <= c})].file
               /\ \A c \in Descendants(l) :
                     /\ levels[c].phase = "returned"
                     /\ \A v \in WorkersOf(c) : workers[v].pc = "done"

\* a task of a playbook has started after a task of a playbook it includes,
\* and one of a playbook that one includes, have run
C5_Witness ==
    \E w, v, u \in DOMAIN workers :
        /\ workers[w].log # <<>> /\ workers[v].log # <<>> /\ workers[u].log # <<>>
        /\ levels[workers[v].lvl].parent = workers[w].lvl
        /\ levels[workers[u].lvl].parent = workers[v].lvl

\* C6: a worker's tasks run one at a time in declaration order: its START and
\* result lines alternate, each result line closing the START before it, the
\* task numbers increase, a START is open only while execute_on_host runs, and
\* by then every earlier task has its outcome and its register entry.
C6_SequentialInOrder ==
    \A w \in DOMAIN workers :
        LET log == workers[w].log IN
        /\ \A p \in 1..Len(log) :
              IF p % 2 = 1
              THEN log[p][1] = "START"
              ELSE /\ log[p][1] \in {"CHANGED", "UNCHANGED", "FAILED"}
                   /\ log[p][2] = log[p - 1][2]
        /\ \A p, q \in 1..Len(log) :
              (p < q /\ log[p][1] = "START" /\ log[q][1] = "START") => log[p][2] < log[q][2]
        /\ (Len(log) % 2 = 1) <=> (workers[w].pc \in {"exec", "failed"})
        /\ workers[w].pc = "exec" =>
              /\ log[Len(log)] = <<"START", workers[w].idx>>
              /\ Len(workers[w].results) = workers[w].idx - 1
              /\ \A i \in 1..(workers[w].idx - 1) :
                    (Ran(workers[w].results[i]) /\ IsSome(TasksOf(w)[i].register))
                        => Unwrap(TasksOf(w)[i].register) \in DOMAIN workers[w].ctx

\* a worker executes its third task after its first two have executed
C6_Witness ==
    \E w \in DOMAIN workers :
        /\ workers[w].pc = "exec"
        /\ workers[w].idx >= 3
        /\ Ran(workers[w].results[1]) /\ Ran(workers[w].results[2])


\* the register key of the task worker w is executing, if it has one
OwnRegisterKey(w) ==
    IF workers[w].idx <= Len(TasksOf(w))
    THEN TasksOf(w)[workers[w].idx].register ELSE None

\* C7: a step that changes a worker's context is that worker's own register
\* write: it adds only the key of the task the worker executes, changes no
\* other worker's context, and a worker spawned later, for another host or by
\* an enclosing call of process, starts from the empty context.
C7_ContextIsolation ==
    [][\A w \in DOMAIN workers' :
          IF w \in DOMAIN workers
          THEN workers'[w].ctx # workers[w].ctx =>
                  /\ workers[w].pc = "exec"
                  /\ DOMAIN workers'[w].ctx \subseteq
                         DOMAIN workers[w].ctx \cup OwnRegisterKey(w)
                  /\ \A v \in DOMAIN workers :
                         v # w => workers'[v].ctx = workers[v].ctx
          ELSE workers'[w].ctx = EmptyCtx]_vars

\* one worker has registered a key that the worker of another host in the same
\* call does not have, and a worker of the enclosing call runs without a key
\* that a worker of the included playbook registered
C7_Witness ==
    /\ \E w, v \in DOMAIN workers :
          /\ workers[w].lvl = workers[v].lvl /\ workers[w].host # workers[v].host
          /\ workers[v].pc \in {"gate", "exec", "done"}
          /\ \E k \in DOMAIN workers[w].ctx : k \notin DOMAIN workers[v].ctx
    /\ \E a, b \in DOMAIN workers :
          /\ levels[workers[b].lvl].parent = workers[a].lvl
          /\ workers[a].pc \in {"gate", "exec", "done"}
          /\ \E k \in DOMAIN workers[b].ctx : k \notin DOMAIN workers[a].ctx

\* C8 as stated: when control has left a call of process, by return or by
\* panic, every worker the call spawned has completed or failed.
C8_Original ==
    \A l \in DOMAIN levels :
        levels[l].phase \in {"returned", "aborted"} =>
            \A w \in WorkersOf(l) : workers[w].pc \in {"done", "failed"}

\* C8 amended: a call of process returns only when every worker it spawned has
\* completed; it joins the handles in spawn order and panics at the first
\* failed one, whatever the workers spawned after that one are doing.
C8_JoinBeforeReturn ==
    \A l \in DOMAIN levels :
        LET h == levels[l].handles
            j == levels[l].j
        IN /\ levels[l].phase = "returned" =>
                 /\ j = Len(h) + 1
                 /\ \A w \in WorkersOf(l) : workers[w].pc = "done"
           /\ levels[l].phase \in {"join", "aborted"} =>
                 \A i \in 1..Len(h) : i < j => workers[h[i]].pc = "done"
           /\ (levels[l].phase = "aborted" /\ WorkersOf(l) # {}) =>
                 /\ j <= Len(h)
                 /\ workers[h[j]].pc = "failed"

\* a call of process has returned after its two workers ran tasks
C8_Witness ==
    \E l \in DOMAIN levels :
        /\ levels[l].phase = "returned"
        /\ \E w, v \in WorkersOf(l) :
              /\ w # v
              /\ workers[w].log # <<>> /\ workers[v].log # <<>>
              /\ workers[w].pc = "done" /\ workers[v].pc = "done"

\* C9 as stated: the other workers of a failed worker's call all run their
\* sequences: none of them is dropped before it has run.
C9_Original ==
    \A w, v \in DOMAIN workers :
        (w # v /\ workers[w].lvl = workers[v].lvl /\ workers[w].pc = "failed")
            => workers[v].pc # "cancelled"

\* C9 amended: the step in which a worker fails changes no other worker; a
\* worker that has started goes on to complete or to fail on its own, and only
\* a worker that has not started when process panics is dropped.
C9_FailureLeavesSiblings ==
    [][\A w \in DOMAIN workers :
          /\ (workers[w].pc # "failed" /\ workers'[w].pc = "failed") =>
                \A v \in DOMAIN workers : v # w => workers'[v] = workers[v]
          /\ workers[w].pc \in {"gate", "exec"} =>
                workers'[w].pc \in {"gate", "exec", "done", "failed"}
          /\ (workers[w].pc # "cancelled" /\ workers'[w].pc = "cancelled") =>
                /\ workers[w].pc = "spawned"
                /\ status = "running" /\ status' = "panicked"]_vars

\* a worker has failed and process has panicked on it while a worker of
\* another host in the same call is in the middle of its sequence
C9_Witness ==
    /\ status = "panicked"
    /\ \E w, v \in DOMAIN workers :
          /\ w # v /\ workers[w].lvl = workers[v].lvl
          /\ workers[w].pc = "failed"
          /\ workers[v].pc = "exec" /\ workers[v].idx >= 2

\* C10: a worker that failed starts nothing more; once a worker has failed
\* neither its call of process nor any enclosing call ever returns; and once
\* process has panicked no include is loaded, no worker is spawned and no
\* worker that has not started runs.
C10_ErrorIsFatal ==
    [][/\ \A w \in DOMAIN workers :
             workers[w].pc = "failed" =>
                /\ workers'[w] = workers[w]
                /\ status' # "returned"
                /\ \A l \in DOMAIN levels :
                      (l = workers[w].lvl \/ IsAncestor(l, workers[w].lvl))
                          => levels'[l].phase # "returned"
       /\ status = "panicked" =>
             /\ status' = "panicked"
             /\ levels' = levels
             /\ DOMAIN workers' = DOMAIN workers
             /\ \A w \in DOMAIN workers :
                   workers[w].pc \in {"spawned", "cancelled"} => workers'[w] = workers[w]]_vars

\* a task failed in an included playbook, process has panicked, and the
\* including playbook, whose own tasks were still to come, has no worker
C10_Witness ==
    /\ status = "panicked"
    /\ \E w \in DOMAIN workers :
          LET l == workers[w].lvl IN
          /\ workers[w].pc = "failed"
          /\ levels[l].parent # 0
          /\ levels[levels[l].parent].phase = "aborted"
          /\ WorkersOf(levels[l].parent) = {}
          /\ PlaybookOf(levels[l].parent).tasks # <<>>
          /\ MatchingHosts(PlaybookOf(levels[l].parent)) # <<>>

\* ---------------------------------------------------------------- execute_on_host
Calls == DOMAIN ex.calls
CallTask(c) == ex.tasks[ex.calls[c].idx]
Succeeded(c) == ex.calls[c].ret \in {"Changed", "Unchanged", "_Failed"}

\* C11: no call of execute_on_host returns the Failed result, no result line
\* reads FAILED and the context never holds the value "failed"; a failure
\* leaves the call as an error return or a panic.
C11_FailedUnreachable ==
    /\ \A c \in Calls : ex.calls[c].ret \in {"Changed", "Unchanged", "Err", "Panic"}
    /\ \A n \in DOMAIN ex.stdout : ex.stdout[n][1] \in {"START", "CHANGED", "UNCHANGED"}
    /\ \A k \in DOMAIN ex.context : ex.context[k] \in {"changed", "unchanged"}
    /\ ex.pc = "failed" <=>
          (Calls # {} /\ ex.calls[Len(ex.calls)].ret \in {"Err", "Panic"})

\* a task succeeded and registered its tag, and the next call failed with an
\* error
C11_Witness ==
    /\ ex.pc = "failed"
    /\ \E c \in Calls :
          /\ Succeeded(c)
          /\ c + 1 \in Calls /\ ex.calls[c + 1].ret = "Err"
    /\ DOMAIN ex.context # {}

\* two calls of the same search-and-replace task, one right after the other,
\* both successful, the second starting from the file the first one left
Rerun(c) ==
    /\ c \in Calls /\ c + 1 \in Calls
    /\ CallTask(c).kind = "search_replace"
    /\ CallTask(c + 1) = CallTask(c)
    /\ Succeeded(c) /\ Succeeded(c + 1)
    /\ ex.calls[c + 1].before = ex.calls[c].after

Sessions ==
    [c \in Calls |-> ex.calls[c].session]
        \o (IF ex.pc \in {"idle", "done", "failed"} THEN <<>> ELSE <<ex.session>>)

\* C15: the agent is tried first; whenever the session is not authenticated
\* after that attempt the key file is tried; a call fails with an
\* authentication error only after both methods have been tried.
C15_AuthFallback ==
    /\ \A n \in DOMAIN Sessions :
          Sessions[n].tried \in {<<>>, <<"agent">>, <<"agent", "pubkey">>}
    /\ \A c \in Calls :
          ex.calls[c].why = "auth" =>
              ex.calls[c].session.tried = <<"agent", "pubkey">>

\* C16 as stated: the worker opens one connection for its whole task sequence,
\* however many tasks it executes.
C16_Original ==
    /\ ex.sessions <= 1
    /\ ex.pc = "done" => ex.sessions = 1

\* C16 amended: every call of execute_on_host opens a connection of its own, so
\* the worker has opened as many connections as it has made calls that got to
\* connect, one for each task it has executed.
C16_SessionPerCall ==
    /\ ex.sessions = Cardinality({n \in DOMAIN Sessions : Sessions[n].connected})
    /\ \A c \in Calls : Succeeded(c) => ex.calls[c].session.connected
    /\ ex.pc = "done" => ex.sessions = Len(ex.tasks)

\* the worker has executed all its tasks, more than one, each over its own
\* connection
C16_Witness ==
    /\ ex.pc = "done"
    /\ Len(ex.calls) >= 2
    /\ ex.sessions = Len(ex.calls)

\* C17: a Template task leaves the worker's context as it was, apart from the
\* entry written under the task's own register key: its variables are merged
\* into a copy that no later task sees.
C17_VariablesTaskLocal ==
    [][(ex.pc = "body" /\ ExecTask.kind = "template" /\ ex'.pc \in {"idle", "done"}) =>
          \A k \in DOMAIN ex.context \cup DOMAIN ex'.context \cup DOMAIN ExecTask.variables :
              IF ExecTask.register = Some(k)
              THEN k \in DOMAIN ex'.context /\ ex'.context[k] = "changed"
              ELSE /\ k \in DOMAIN ex'.context <=> k \in DOMAIN ex.context
                   /\ k \in DOMAIN ex.context => ex'.context[k] = ex.context[k]]_vars

\* a Template task rendered with a variable, registered its result, and the
\* next task runs with a context that lacks the variable
C17_Witness ==
    \E c \in Calls :
        /\ CallTask(c).kind = "template" /\ Succeeded(c)
        /\ IsSome(CallTask(c).register)
        /\ ex.pc = "body" /\ ex.idx = ex.calls[c].idx + 1
        /\ \E k \in DOMAIN CallTask(c).variables :
              /\ k \in DOMAIN ex.calls[c].local
              /\ k \notin DOMAIN ex.context
        /\ Unwrap(CallTask(c).register) \in DOMAIN ex.context

\* C20: a SearchReplace task whose pattern does not compile fails with an
\* error and leaves the remote file as it was: the file is read, the pattern
\* compiled, and the file created for writing only after that.
C20_BadPatternKeepsFile ==
    /\ \A c \in Calls :
          ex.calls[c].why = "pattern" =>
              /\ ex.calls[c].ret = "Err"
              /\ ~IsValidRegex(CallTask(c).search)
              /\ ex.calls[c].after = ex.calls[c].before
    /\ ex.pc = "compile" => remote = ex.before /\ ex.contents = remote[ExecTask.path]
    /\ ex.pc = "write" => IsValidRegex(ExecTask.search) /\ remote = ex.before
    /\ \A c \in Calls :
          (CallTask(c).kind = "search_replace" /\ ~IsValidRegex(CallTask(c).search)) =>
              /\ ~Succeeded(c)
              /\ ex.calls[c].after = ex.calls[c].before

\* a task with a malformed pattern failed on a file that held text, and the
\* host still holds that text
C20_Witness ==
    \E c \in Calls :
        /\ ex.calls[c].why = "pattern"
        /\ "/f" \in DOMAIN ex.calls[c].before
        /\ ex.calls[c].before["/f"] # <<>>
        /\ remote = ex.calls[c].before

\* ---------------------------------------------------------------- the log
IsStart(line) == line[1] = "START"
IsResult(line) == line[1] \in {"CHANGED", "UNCHANGED", "FAILED"}

\* C12: the lines of one host read START_1, RESULT_1, START_2, RESULT_2, ...:
\* a result line directly follows the START line of its task, a START line
\* follows no open START line, the side effect of a task falls after its
\* START line and before its result line, and two workers of one host never
\* write in the same period, whatever the workers of other hosts do.
C12_LogOrdering ==
    /\ \A w \in DOMAIN workers :
          LET log == workers[w].log
              fx == workers[w].fx
          IN /\ \A p \in DOMAIN log :
                    /\ IsStart(log[p]) \/ IsResult(log[p])
                    /\ IsResult(log[p]) =>
                          /\ p > 1
                          /\ log[p - 1] = <<"START", log[p][2]>>
                          /\ \E e \in DOMAIN fx : fx[e] = <<log[p][2], p - 1>>
                    /\ (IsStart(log[p]) /\ p > 1) => IsResult(log[p - 1])
                    /\ (IsStart(log[p]) /\ p < Len(log)) =>
                          /\ IsResult(log[p + 1])
                          /\ log[p + 1][2] = log[p][2]
             /\ \A e \in DOMAIN fx :
                    /\ fx[e][2] \in DOMAIN log
                    /\ log[fx[e][2]] = <<"START", fx[e][1]>>
                    /\ fx[e][2] < Len(log) => IsResult(log[fx[e][2] + 1])
    /\ \A w, v \in DOMAIN workers :
          (w < v /\ workers[w].host = workers[v].host) =>
              /\ workers[w].pc = "done"
              /\ Len(workers[w].log) % 2 = 0

\* the workers of two hosts are both in their second task, their lines
\* interleaved, while an earlier worker of one of the hosts has written its
\* lines in full
C12_Witness ==
    \E w, v, u \in DOMAIN workers :
        /\ workers[w].lvl = workers[v].lvl
        /\ workers[w].host # workers[v].host
        /\ workers[w].pc = "exec" /\ Len(workers[w].log) = 3
        /\ workers[v].pc = "exec" /\ Len(workers[v].log) = 3
        /\ u < w /\ workers[u].host = workers[w].host
        /\ Len(workers[u].log) >= 2

\* ---------------------------------------------------------------- includes
\* the task passes the requested tag filter of the run
Eligible(task) ==
    \/ specified_tags = None
    \/ /\ task.tags # None
       /\ Elems(Unwrap(task.tags)) \cap Elems(Unwrap(specified_tags)) # {}

\* C14: a call of process for an included playbook has one worker for every
\* inventory host in the playbook's own hosts list and for no other host,
\* whether or not the including playbook lists the host; once the call has
\* returned, each of these workers has run every eligible task.
C14_IncludedMatchedByOwnHosts ==
    \A l \in DOMAIN levels :
        (levels[l].parent # 0 /\ levels[l].phase \in {"join", "returned"}) =>
            /\ \A h \in InventoryAddresses :
                  IF h \in Elems(PlaybookOf(l).hosts)
                  THEN Cardinality({w \in WorkersOf(l) : workers[w].host = h}) = 1
                  ELSE {w \in WorkersOf(l) : workers[w].host = h} = {}
            /\ levels[l].phase = "returned" =>
                  \A w \in WorkersOf(l) :
                      /\ workers[w].pc = "done"
                      /\ Len(workers[w].results) = Len(TasksOf(w))
                      /\ \A i \in 1..Len(TasksOf(w)) :
                            Eligible(TasksOf(w)[i]) <=> Ran(workers[w].results[i])

\* an included playbook has returned after running a task on a host that the
\* playbook including it does not list
C14_Witness ==
    \E l \in DOMAIN levels :
        /\ levels[l].parent # 0
        /\ levels[l].phase = "returned"
        /\ \E w \in WorkersOf(l) :
              /\ workers[w].host \notin Elems(PlaybookOf(levels[l].parent).hosts)
              /\ \E i \in 1..Len(workers[w].results) : Ran(workers[w].results[i])

\* the place of call c among the calls made by the include loop of its caller
Rank(c) == Cardinality({d \in Children(levels[c].parent) : d <= c})

\* the include entry call c of process was made for
IncludeOf(c) == Includes(PlaybookOf(levels[c].parent))[Rank(c)]

\* C18: every entry of an include list is loaded and processed, in order,
\* whatever its tags and when fields are, and at every depth the included
\* playbook is handed the requested tag filter of the run and its tasks are
\* gated by that filter alone.
C18_IncludesUnconditional ==
    /\ \A l \in DOMAIN levels :
          /\ levels[l].specified_tags = specified_tags
          /\ levels[l].parent # 0 =>
                /\ Rank(l) <= Len(Includes(PlaybookOf(levels[l].parent)))
                /\ levels[l].pb = IncludeOf(l).file
          /\ levels[l].phase \in {"join", "returned"} =>
                /\ Cardinality(Children(l)) = Len(Includes(PlaybookOf(l)))
                /\ \A c \in Children(l) : levels[c].phase = "returned"
    /\ \A w \in DOMAIN workers : \A i \in 1..Len(workers[w].results) :
          workers[w].results[i] = "skipped" <=> ~Eligible(TasksOf(w)[i])

\* under a requested filter an include entry with tags of its own and a when
\* field has been processed, and a task carrying none of the entry's tags ran
C18_Witness ==
    /\ specified_tags # None
    /\ \E l \in DOMAIN levels :
          /\ levels[l].parent # 0
          /\ IsSome(IncludeOf(l).tags) /\ IsSome(IncludeOf(l).when)
          /\ levels[l].phase = "returned"
          /\ \E w \in WorkersOf(l) : \E i \in 1..Len(workers[w].results) :
                /\ Ran(workers[w].results[i])
                /\ Elems(Unwrap(TasksOf(w)[i].tags))
                       \cap Elems(Unwrap(IncludeOf(l).tags)) = {}

\* the files playbook file f includes that can be loaded
IncludedFiles(f) ==
    {Includes(playbooks[f])[i].file : i \in 1..Len(Includes(playbooks[f]))}
        \cap DOMAIN playbooks

RECURSIVE Closure(_, _)
Closure(S, n) ==
    IF n = 0 THEN S
    ELSE Closure(S \cup UNION {IncludedFiles(f) : f \in S}, n - 1)

\* the files reached from f through one include or more
ReachedFrom(f) == Closure(IncludedFiles(f), Cardinality(DOMAIN playbooks))
OnCycle(f) == f \in ReachedFrom(f)
HasCycle == \E f \in {"site"} \cup ReachedFrom("site") : OnCycle(f)

\* C19: with a cycle in the include graph reached from the top-level playbook
\* the run never returns; a call of process for a playbook on the cycle stays
\* in its include loop with an entry ahead that leads back to the playbook,
\* and no worker is ever spawned for such a playbook.
C19_CycleRecursesForever ==
    HasCycle =>
        /\ status # "returned"
        /\ \A w \in DOMAIN workers : ~OnCycle(levels[workers[w].lvl].pb)
        /\ \A l \in DOMAIN levels :
              OnCycle(levels[l].pb) =>
                  /\ levels[l].phase \in {"include", "aborted"}
                  /\ levels[l].handles = <<>>
                  /\ \E i \in levels[l].inc..Len(Includes(PlaybookOf(l))) :
                        LET file == Includes(PlaybookOf(l))[i].file IN
                        /\ file \in DOMAIN playbooks
                        /\ levels[l].pb \in {file} \cup ReachedFrom(file)
        /\ (status = "running" /\ cur # 0 /\ OnCycle(levels[cur].pb)
                /\ Depth(cur) < MaxDepth) =>
              /\ cur = Len(levels)
              /\ ENABLED ProcessInclude

\* the recursion has gone round the cycle, into a playbook that is already
\* being processed, as deep as the model lets it, and nothing has run
C19_Witness ==
    /\ HasCycle
    /\ status = "running"
    /\ Len(levels) = MaxDepth
    /\ \E a, l \in DOMAIN levels :
          /\ IsAncestor(a, l)
          /\ levels[a].pb = levels[l].pb
          /\ levels[a].phase = "include" /\ levels[l].phase = "include"
    /\ workers = <<>>

====
